---- MODULE Spec2Model ----
(***************************************************************************)
(* Model of the streaming session controller of the AudioWidgets component *)
(* (src/sandbox/components/widgets/AudioWidgets.tsx): the websocket        *)
(* lifecycle handlers, the capture loop and the single-in-flight gate.     *)
(*                                                                         *)
(* JavaScript runs every handler to its first await without interruption,  *)
(* so each action is one such run: an event handler, or the continuation   *)
(* of an await (AudioRecorder.create, recorder.record, blobToBase64).      *)
(* The browser's WebSocket is the environment: a handle is Connecting,     *)
(* Open, Closing or Closed; the task that closes a handle sets it Closed,  *)
(* fires the error event when the connection failed and then the close     *)
(* event; message events are only delivered while the handle is Open.      *)
(***************************************************************************)
EXTENDS Integers, Sequences, FiniteSets, TLC

\* ------------------------------------------------------------------ bounds
MaxSockets == 6     \* socket handles created in one run
MaxChunks  == 3     \* chunks captured in one run
MaxOpens   == 2     \* open events (capture loops started) in one run

\* ------------------------------------------------------- program constants
maxReconnects == 3

Sockets == 1..MaxSockets
NoSocket == 0
NoRecorder == 0

VARIABLES
  socketRef,        \* socketRef.current: NoSocket (null) or a handle
  recorderRef,      \* recorderRef.current: NoRecorder (null) or a recorder
  audioBufferRef,   \* audioBufferRef.current: sequence of chunks
  mountRef,         \* mountRef.current: the alive flag
  numReconnects,    \* numReconnects.current
  serverReadyRef,   \* serverReadyRef.current: the readiness flag
  status,           \* the status string shown to the user
  readyState,       \* readyState of every handle ("None": not created yet)
  failing,          \* handles whose connection was aborted before it opened
  created,          \* number of handles created by new WebSocket(...)
  nRecorders,       \* number of recorders returned by AudioRecorder.create
  stoppedRec,       \* recorders on which stopRecording() was called
  creating,         \* socketOnOpen runs suspended at AudioRecorder.create
  recording,        \* capture loops suspended at recorder.record
  encoding,         \* sendRequest runs suspended at blobToBase64
  nextChunk,        \* the next chunk the recorder returns
  reauthCount,      \* times the re-authentication status was emitted
  stopped,          \* stopEverything has run
  sendCloses,       \* per handle: close() calls made by sendRequest
  stopCloses,       \* per handle: close() calls made by stopEverything
  unmounted,        \* the effect's cleanup has run
  inflight,         \* per handle: batches sent while Open and not answered
  sent,             \* every socket.send call, in call order
  errStreak,        \* error events since the last open event
  aliveCloses,      \* close events delivered while mountRef was true
  errorSeen,        \* a message with a top-level error field was handled
  malformedSeen     \* an unparseable message was delivered

ctlVars == <<socketRef, recorderRef, audioBufferRef, mountRef, numReconnects,
             serverReadyRef, status, readyState, failing, created,
             nRecorders, stoppedRec, creating, recording, encoding,
             nextChunk, reauthCount, stopped, sendCloses, stopCloses>>
envVars == <<inflight, sent, errStreak, aliveCloses, errorSeen, malformedSeen,
             unmounted>>
vars == <<ctlVars, envVars>>

\* The controller's state as one record, so that a handler is a function
\* from the state before it runs to the state after it.
Ctl ==
  [socketRef |-> socketRef, recorderRef |-> recorderRef,
   audioBufferRef |-> audioBufferRef, mountRef |-> mountRef,
   numReconnects |-> numReconnects, serverReadyRef |-> serverReadyRef,
   status |-> status, readyState |-> readyState, failing |-> failing,
   created |-> created, nRecorders |-> nRecorders, stoppedRec |-> stoppedRec,
   creating |-> creating, recording |-> recording,
   encoding |-> encoding, nextChunk |-> nextChunk,
   reauthCount |-> reauthCount, stopped |-> stopped,
   sendCloses |-> sendCloses, stopCloses |-> stopCloses]

Commit(c) ==
  /\ socketRef' = c.socketRef
  /\ recorderRef' = c.recorderRef
  /\ audioBufferRef' = c.audioBufferRef
  /\ mountRef' = c.mountRef
  /\ numReconnects' = c.numReconnects
  /\ serverReadyRef' = c.serverReadyRef
  /\ status' = c.status
  /\ readyState' = c.readyState
  /\ failing' = c.failing
  /\ created' = c.created
  /\ nRecorders' = c.nRecorders
  /\ stoppedRec' = c.stoppedRec
  /\ creating' = c.creating
  /\ recording' = c.recording
  /\ encoding' = c.encoding
  /\ nextChunk' = c.nextChunk
  /\ reauthCount' = c.reauthCount
  /\ stopped' = c.stopped
  /\ sendCloses' = c.sendCloses
  /\ stopCloses' = c.stopCloses

\* The refs as useRef/useState initialise them, before the mount effect.
Refs0 ==
  [socketRef |-> NoSocket, recorderRef |-> NoRecorder,
   audioBufferRef |-> <<>>, mountRef |-> TRUE,
   numReconnects |-> 0, serverReadyRef |-> TRUE,
   status |-> "", readyState |-> [s \in Sockets |-> "None"],
   failing |-> {}, created |-> 0, nRecorders |-> 0, stoppedRec |-> {},
   creating |-> 0, recording |-> 0, encoding |-> {},
   nextChunk |-> 1, reauthCount |-> 0, stopped |-> FALSE,
   sendCloses |-> [s \in Sockets |-> 0],
   stopCloses |-> [s \in Sockets |-> 0]]

\* --------------------------------------------------------------- handlers

\* WebSocket.close(): no effect on a Closing or Closed handle; a Connecting
\* handle is aborted, which the browser reports as a failed connection.
close(c, s) ==
  IF c.readyState[s] = "Connecting"
    THEN [c EXCEPT !.readyState[s] = "Closing", !.failing = @ \cup {s}]
  ELSE IF c.readyState[s] = "Open"
    THEN [c EXCEPT !.readyState[s] = "Closing"]
  ELSE c

\* connect() without line 81: the readiness flag is left as it was.
connect_readyNotSet(c) ==
  [c EXCEPT !.status = "Connecting",
            !.created = c.created + 1,
            !.socketRef = c.created + 1,
            !.readyState[c.created + 1] = "Connecting"]

\* connect(): a new handle, readiness flag set.
connect(c) ==
  [c EXCEPT !.serverReadyRef = TRUE,
            !.status = "Connecting",
            !.created = c.created + 1,
            !.socketRef = c.created + 1,
            !.readyState[c.created + 1] = "Connecting"]

\* stopEverything() without line 186: socketRef keeps the closed handle.
stopEverything_keepsSocketRef(c) ==
  LET c1 == [c EXCEPT !.mountRef = FALSE, !.stopped = TRUE]
      c2 == IF c1.socketRef # NoSocket
              THEN [close(c1, c1.socketRef) EXCEPT
                      !.stopCloses[c1.socketRef] = @ + 1]
              ELSE c1
  IN  IF c2.recorderRef # NoRecorder
        THEN [c2 EXCEPT !.stoppedRec = @ \cup {c2.recorderRef},
                        !.recorderRef = NoRecorder]
        ELSE c2

\* stopEverything()
stopEverything(c) ==
  LET c1 == [c EXCEPT !.mountRef = FALSE, !.stopped = TRUE]
      c2 == IF c1.socketRef # NoSocket
              THEN [close(c1, c1.socketRef) EXCEPT
                      !.stopCloses[c1.socketRef] = @ + 1,
                      !.socketRef = NoSocket]
              ELSE c1
  IN  IF c2.recorderRef # NoRecorder
        THEN [c2 EXCEPT !.stoppedRec = @ \cup {c2.recorderRef},
                        !.recorderRef = NoRecorder]
        ELSE c2

\* sendRequest() without line 212: the readiness flag is left as it was.
sendRequest_readyStaysTrue(c) ==
  IF c.socketRef = NoSocket THEN c
  ELSE IF c.readyState[c.socketRef] = "Open"
    THEN [c EXCEPT !.audioBufferRef = <<>>,
                   !.encoding = @ \cup {[socket |-> c.socketRef,
                                         payload |-> c.audioBufferRef]}]
  ELSE [close(c, c.socketRef) EXCEPT !.sendCloses[c.socketRef] = @ + 1]

\* sendRequest() without line 213: the queue is not emptied.
sendRequest_queueNotCleared(c) ==
  IF c.socketRef = NoSocket THEN c
  ELSE IF c.readyState[c.socketRef] = "Open"
    THEN [c EXCEPT !.serverReadyRef = FALSE,
                   !.encoding = @ \cup {[socket |-> c.socketRef,
                                         payload |-> c.audioBufferRef]}]
  ELSE [close(c, c.socketRef) EXCEPT !.sendCloses[c.socketRef] = @ + 1]

\* sendRequest() without line 227: a handle that is not Open is left alone.
sendRequest_dropsSilently(c) ==
  IF c.socketRef = NoSocket THEN c
  ELSE IF c.readyState[c.socketRef] = "Open"
    THEN [c EXCEPT !.serverReadyRef = FALSE,
                   !.audioBufferRef = <<>>,
                   !.encoding = @ \cup {[socket |-> c.socketRef,
                                         payload |-> c.audioBufferRef]}]
  ELSE c

\* sendRequest() up to its await of blobToBase64.
sendRequest(c) ==
  IF c.socketRef = NoSocket THEN c
  ELSE IF c.readyState[c.socketRef] = "Open"
    THEN [c EXCEPT !.serverReadyRef = FALSE,
                   !.audioBufferRef = <<>>,
                   !.encoding = @ \cup {[socket |-> c.socketRef,
                                         payload |-> c.audioBufferRef]}]
  ELSE [close(c, c.socketRef) EXCEPT !.sendCloses[c.socketRef] = @ + 1]

\* socketOnOpen() up to its await of AudioRecorder.create.
socketOnOpen(c) ==
  [c EXCEPT !.status = "", !.creating = @ + 1]

\* socketOnOpen() from the return of AudioRecorder.create to the first
\* await of record (or to the end, when the loop condition is false).
recorderCreated(c) ==
  LET c1 == [c EXCEPT !.creating = @ - 1,
                      !.nRecorders = @ + 1,
                      !.recorderRef = c.nRecorders + 1]
  IN  IF c1.mountRef THEN [c1 EXCEPT !.recording = @ + 1] ELSE c1

\* One turn of the capture loop: from the return of record to the next
\* await of record (or to the end of the loop).
recordReturned(c) ==
  LET c1 == [c EXCEPT !.audioBufferRef = Append(@, c.nextChunk),
                      !.nextChunk = @ + 1]
      c2 == IF c1.serverReadyRef THEN sendRequest(c1) ELSE c1
  IN  IF c2.mountRef THEN c2 ELSE [c2 EXCEPT !.recording = @ - 1]

\* socketOnMessage(event) without line 137: the readiness flag is not set
\* when the queue is empty.
socketOnMessage_readyNotRestored(c, kind) ==
  LET c1 == [c EXCEPT !.status = ""]
  IN  IF kind = "malformed" THEN c1
      ELSE IF kind = "error"
        THEN stopEverything([c1 EXCEPT !.status = "ServerError"])
      ELSE LET c2 == IF kind = "empty"
                       THEN [c1 EXCEPT !.status = "NoSpeech"] ELSE c1
           IN  IF Len(c2.audioBufferRef) > 0
                 THEN sendRequest(c2)
                 ELSE c2

\* socketOnMessage(event).  kind is what event.data holds: "malformed"
\* (JSON.parse throws), "error" (a top-level error field), "empty" (no
\* predictions) or "ok".
socketOnMessage(c, kind) ==
  LET c1 == [c EXCEPT !.status = ""]
  IN  IF kind = "malformed" THEN c1
      ELSE IF kind = "error"
        THEN stopEverything([c1 EXCEPT !.status = "ServerError"])
      ELSE LET c2 == IF kind = "empty"
                       THEN [c1 EXCEPT !.status = "NoSpeech"] ELSE c1
           IN  IF Len(c2.audioBufferRef) > 0
                 THEN sendRequest(c2)
                 ELSE [c2 EXCEPT !.serverReadyRef = TRUE]

\* socketOnClose(event) that stops reconnecting once the counter is over
\* the ceiling.
socketOnClose_counterGated(c) ==
  IF c.mountRef = TRUE /\ c.numReconnects <= maxReconnects
    THEN connect([c EXCEPT !.status = "Reconnecting"])
    ELSE c

\* socketOnClose(event) without the test of mountRef.
socketOnClose_ignoresAlive(c) ==
  connect([c EXCEPT !.status = "Reconnecting"])

\* socketOnClose(event)
socketOnClose(c) ==
  IF c.mountRef = TRUE
    THEN connect([c EXCEPT !.status = "Reconnecting"])
    ELSE c

\* socketOnError(event) without the call of stopEverything.
socketOnError_noStop(c) ==
  IF c.numReconnects > maxReconnects
    THEN [c EXCEPT !.status = "Reauthenticate", !.reauthCount = @ + 1]
    ELSE [c EXCEPT !.numReconnects = @ + 1]

\* socketOnError(event) that also reconnects after counting the error.
socketOnError_reconnects(c) ==
  IF c.numReconnects > maxReconnects
    THEN stopEverything([c EXCEPT !.status = "Reauthenticate",
                                  !.reauthCount = @ + 1])
    ELSE connect([c EXCEPT !.numReconnects = @ + 1])

\* socketOnError(event)
socketOnError(c) ==
  IF c.numReconnects > maxReconnects
    THEN stopEverything([c EXCEPT !.status = "Reauthenticate",
                                  !.reauthCount = @ + 1])
    ELSE [c EXCEPT !.numReconnects = @ + 1]

\* ------------------------------------------------------------------- Init

\* The mount effect has run: mountRef.current = true; connect().
Mounted == connect([Refs0 EXCEPT !.mountRef = TRUE])

Init ==
  /\ socketRef = Mounted.socketRef
  /\ recorderRef = Mounted.recorderRef
  /\ audioBufferRef = Mounted.audioBufferRef
  /\ mountRef = Mounted.mountRef
  /\ numReconnects = Mounted.numReconnects
  /\ serverReadyRef = Mounted.serverReadyRef
  /\ status = Mounted.status
  /\ readyState = Mounted.readyState
  /\ failing = Mounted.failing
  /\ created = Mounted.created
  /\ nRecorders = Mounted.nRecorders
  /\ stoppedRec = Mounted.stoppedRec
  /\ creating = Mounted.creating
  /\ recording = Mounted.recording
  /\ encoding = Mounted.encoding
  /\ nextChunk = Mounted.nextChunk
  /\ reauthCount = Mounted.reauthCount
  /\ stopped = Mounted.stopped
  /\ sendCloses = Mounted.sendCloses
  /\ stopCloses = Mounted.stopCloses
  /\ inflight = [s \in Sockets |-> 0]
  /\ sent = <<>>
  /\ errStreak = 0
  /\ aliveCloses = 0
  /\ errorSeen = FALSE
  /\ malformedSeen = FALSE
  /\ unmounted = FALSE

\* ---------------------------------------------------------------- actions

\* The open event of handle s.
SocketOpen(s) ==
  /\ readyState[s] = "Connecting"
  /\ nRecorders + creating < MaxOpens
  /\ Commit(socketOnOpen([Ctl EXCEPT !.readyState[s] = "Open"]))
  /\ errStreak' = 0
  /\ UNCHANGED <<inflight, sent, aliveCloses, errorSeen, malformedSeen,
                 unmounted>>

\* AudioRecorder.create() resolves in one suspended socketOnOpen.
RecorderCreated ==
  /\ creating > 0
  /\ Commit(recorderCreated(Ctl))
  /\ UNCHANGED envVars

\* recorder.record() resolves with the next chunk in one capture loop.
RecordReturned ==
  /\ recording > 0
  /\ nextChunk <= MaxChunks
  /\ Commit(recordReturned(Ctl))
  /\ UNCHANGED envVars

\* blobToBase64 resolves in a suspended sendRequest e, which then calls
\* socket.send on the handle it read before the await.  A handle that is
\* Closing or Closed discards the data.
EncodeDone ==
  \E e \in encoding :
  /\ encoding' = encoding \ {e}
  /\ sent' = Append(sent, [socket |-> e.socket, payload |-> e.payload,
                           open |-> readyState[e.socket] = "Open",
                           alive |-> mountRef,
                           afterError |-> errorSeen,
                           afterReauth |-> reauthCount > 0])
  /\ inflight' = IF readyState[e.socket] = "Open"
                   THEN [inflight EXCEPT ![e.socket] = @ + 1]
                   ELSE inflight
  /\ UNCHANGED <<socketRef, recorderRef, audioBufferRef, mountRef,
                 numReconnects, serverReadyRef, status, readyState, failing,
                 created, nRecorders, stoppedRec, creating, recording,
                 nextChunk, reauthCount, stopped, sendCloses, stopCloses>>
  /\ UNCHANGED <<errStreak, aliveCloses, errorSeen, malformedSeen,
                 unmounted>>

\* A message event on handle s.  The server answers a batch with
\* predictions ("ok", "empty") only when one is unanswered; an error or an
\* unparseable payload may come at any time and answers the unanswered
\* batch when there is one.
Message(s, kind) ==
  /\ readyState[s] = "Open"
  /\ kind \in {"ok", "empty"} => inflight[s] > 0
  /\ Commit(socketOnMessage(Ctl, kind))
  /\ inflight' = [inflight EXCEPT ![s] = IF @ > 0 THEN @ - 1 ELSE 0]
  /\ errorSeen' = (errorSeen \/ kind = "error")
  /\ malformedSeen' = (malformedSeen \/ kind = "malformed")
  /\ UNCHANGED <<sent, errStreak, aliveCloses, unmounted>>

\* The task that closes handle s: readyState becomes Closed, the error
\* event fires when the connection failed, then the close event fires.
\* A handle that never opened can only fail.
SocketClosed(s, failed) ==
  /\ readyState[s] \in {"Connecting", "Open", "Closing"}
  /\ (readyState[s] = "Connecting" \/ s \in failing) => failed
  /\ LET c1 == [Ctl EXCEPT !.readyState[s] = "Closed", !.failing = @ \ {s}]
         c2 == IF failed THEN socketOnError(c1) ELSE c1
         c3 == socketOnClose(c2)
     IN  /\ c3.created <= MaxSockets
         /\ Commit(c3)
         /\ aliveCloses' = IF c2.mountRef THEN aliveCloses + 1
                                          ELSE aliveCloses
  /\ errStreak' = IF failed THEN errStreak + 1 ELSE errStreak
  /\ inflight' = [inflight EXCEPT ![s] = 0]
  /\ UNCHANGED <<sent, errorSeen, malformedSeen, unmounted>>

\* The component unmounts: the effect's cleanup calls stopEverything(),
\* whether or not a handler has called it before.
Unmount ==
  /\ ~unmounted
  /\ Commit(stopEverything(Ctl))
  /\ unmounted' = TRUE
  /\ UNCHANGED <<inflight, sent, errStreak, aliveCloses, errorSeen,
                 malformedSeen>>

Next ==
  \/ \E s \in Sockets : SocketOpen(s)
  \/ RecorderCreated
  \/ RecordReturned
  \/ EncodeDone
  \/ \E s \in Sockets, kind \in {"ok", "empty", "error", "malformed"} :
       Message(s, kind)
  \/ \E s \in Sockets, failed \in BOOLEAN : SocketClosed(s, failed)
  \/ Unmount

Spec == Init /\ [][Next]_vars

\* ---------------------------------------------------------------- helpers

Range(q) == {q[i] : i \in 1..Len(q)}

\* The highest chunk that a sendRequest has taken out of the queue.
Drained ==
  LET taken == UNION ({Range(e.payload) : e \in encoding}
                      \cup {Range(sent[i].payload) : i \in 1..Len(sent)})
  IN  IF taken = {} THEN 0 ELSE CHOOSE k \in taken : \A j \in taken : j <= k

\* The chunks a..b in the order of capture.
Run(a, b) == [i \in 1..(b - a + 1) |-> a + i - 1]

\* ----------------------------------------------------------------- claims

\* C1: on every Open handle at most one batch is issued and unanswered at
\* any time, counting the batches sent and not yet answered and the batches
\* a sendRequest has taken from the queue and not yet sent.
C1_AtMostOneInFlight ==
  \A s \in Sockets :
    readyState[s] = "Open" =>
      inflight[s] + Cardinality({e \in encoding : e.socket = s}) <= 1

\* A second batch is in flight on a handle while a chunk waits in the queue.
C1_Witness ==
  /\ Len(sent) >= 2
  /\ socketRef # NoSocket
  /\ inflight[socketRef] = 1
  /\ sent[1].socket = socketRef
  /\ Len(audioBufferRef) >= 1

\* C2: every payload a sendRequest takes is exactly the chunks captured
\* since the previous payload was taken, in capture order, and the queue
\* is empty right after it is taken.
C2_NextBatchExact ==
  [][\A e \in encoding' \ encoding :
        /\ e.payload = Run(Drained + 1, nextChunk' - 1)
        /\ audioBufferRef' = <<>>]_vars

\* Two chunks that came in while a batch was in flight went out together
\* as the next batch on the same handle.
C2_Witness ==
  \E i \in 2..Len(sent) :
    /\ Len(sent[i].payload) >= 2
    /\ sent[i].open /\ sent[i - 1].open
    /\ sent[i].socket = sent[i - 1].socket

\* C3: while the session is alive every captured chunk is in the queue, in
\* a payload being encoded, or in exactly one payload handed to a handle
\* that was Open at the send.
C3_NoLossNoDup ==
  \A k \in 1..(nextChunk - 1) :
    LET holders == {i \in 1..Len(sent) : k \in Range(sent[i].payload)}
    IN  \/ k \in Range(audioBufferRef)
        \/ \E e \in encoding : k \in Range(e.payload)
        \/ /\ Cardinality(holders) = 1
           /\ \A i \in holders : sent[i].alive => sent[i].open

\* C4: every close event delivered while the session is alive creates
\* exactly one new handle, whatever the reconnect counter holds.
C4_OneReconnectPerClose == created = 1 + aliveCloses

\* Handles were closed both cleanly and after errors, and each close
\* reconnected.
C4_Witness ==
  /\ aliveCloses >= 3
  /\ numReconnects >= 1
  /\ numReconnects < aliveCloses
  /\ mountRef

\* C5: after 4 error events with no open event in between the session is
\* torn down.
C5_FourErrorsTearDown == errStreak >= 4 => ~mountRef

\* C6: the reconnect counter only counts the error events since the last
\* open event.
C6_OpenResetsCounter == numReconnects <= errStreak

\* C7: the re-authentication status is emitted at most once, and from its
\* emission on it is the status shown in every state.
C7_ReauthOnceAndPermanent ==
  reauthCount >= 1 => reauthCount = 1 /\ status = "Reauthenticate"

\* The status was emitted and a suspended sendRequest resumed afterwards.
C7_Witness ==
  /\ reauthCount = 1
  /\ status = "Reauthenticate"
  /\ \E i \in 1..Len(sent) : sent[i].afterReauth

\* C8: only stopEverything clears the alive flag, and after it has run the
\* flag stays cleared and no handle is created.
C8_NoReconnectAfterStop ==
  [][/\ ~mountRef' => stopped'
     /\ stopped => ~mountRef' /\ created' = created]_vars

\* The component was unmounted while its handle was not yet Closed, and the
\* close event of that handle has been delivered since.
C8_Witness ==
  /\ stopped
  /\ unmounted
  /\ reauthCount = 0
  /\ ~errorSeen
  /\ created >= 2
  /\ readyState[created] = "Closed"

\* C9: after a message with a top-level error field no send is issued.
C9_NoSendAfterError == [][errorSeen => sent' = sent]_vars

\* C10: an unparseable message tears the session down.
C10_MalformedTearsDown == malformedSeen => stopped

\* C11: a sendRequest that the capture loop starts while the readiness flag
\* is set and that takes nothing from the queue leaves no handle Connecting
\* or Open, and the queue holds what it held plus the new chunk.
C11_SendWhileNotOpenCloses ==
  [][(nextChunk' = nextChunk + 1 /\ serverReadyRef /\ encoding' = encoding)
       => /\ \A s \in Sockets : readyState'[s] \notin {"Connecting", "Open"}
          /\ audioBufferRef' = Append(audioBufferRef, nextChunk)]_vars

\* The session is alive, sendRequest has closed the handle that was still
\* Connecting, and the chunk is in the queue.
C11_Witness ==
  /\ mountRef
  /\ socketRef # NoSocket
  /\ socketRef \in failing
  /\ sendCloses[socketRef] >= 1
  /\ Len(audioBufferRef) >= 1

\* C12: after stopEverything has run there is no call of socket.send.
C12_NoSendAfterStop == [][stopped => sent' = sent]_vars

\* C13: at most one capture loop is suspended at record at any time.
C13_OneCaptureLoop == recording <= 1

C15_TeardownReleasesAll ==
  (/\ stopped
   /\ creating = 0 /\ recording = 0 /\ encoding = {}
   /\ \A s \in Sockets : readyState[s] \in {"None", "Closed"})
    => /\ stoppedRec = 1..nRecorders
       /\ audioBufferRef = <<>>

\* C16: the handler of a message with predictions or with none either
\* takes the whole non-empty queue into a new send on that handle and
\* leaves the readiness flag false, or, the queue being empty, sets the
\* readiness flag and starts no send.
C16_ResponseSendsOrIdles ==
  [][\A s \in Sockets, kind \in {"ok", "empty"} :
       Message(s, kind) =>
         IF audioBufferRef # <<>>
           THEN /\ ~serverReadyRef'
                /\ audioBufferRef' = <<>>
                /\ encoding' = encoding \cup {[socket |-> s,
                                               payload |-> audioBufferRef]}
                /\ encoding' # encoding
           ELSE /\ serverReadyRef'
                /\ encoding' = encoding]_vars

\* A batch was sent on the current handle and answered while the queue was
\* empty: the session is idle with the readiness flag set.
C16_Witness ==
  /\ mountRef /\ ~malformedSeen
  /\ socketRef # NoSocket
  /\ readyState[socketRef] = "Open"
  /\ Len(sent) >= 1
  /\ sent[Len(sent)].socket = socketRef /\ sent[Len(sent)].open
  /\ inflight[socketRef] = 0 /\ encoding = {}
  /\ serverReadyRef /\ audioBufferRef = <<>>

\* C17: of any two payloads passed to socket.send, every chunk of the
\* earlier one was captured before every chunk of the later one.
C17_SendsInCaptureOrder ==
  \A i, j \in 1..Len(sent) :
    i < j => \A a \in Range(sent[i].payload), b \in Range(sent[j].payload) :
               a < b

\* C18: in a step that leaves the session alive no Connecting handle
\* becomes Closing.
C18_ConnectingNotClosedWhileAlive ==
  [][mountRef' =>
       \A s \in Sockets :
         readyState[s] = "Connecting" => readyState'[s] # "Closing"]_vars

\* C18, amended: while the session stays alive a Connecting handle becomes
\* Closing only in a turn of the capture loop, and every turn of the capture
\* loop that finds the current handle Connecting closes it and leaves the
\* new chunk at the end of the queue.
C18_ChunkAbortsConnecting ==
  [][/\ \A s \in Sockets :
          (mountRef' /\ readyState[s] = "Connecting"
                     /\ readyState'[s] = "Closing")
            => /\ nextChunk' = nextChunk + 1
               /\ s = socketRef /\ s \in failing'
     /\ (/\ nextChunk' = nextChunk + 1
         /\ mountRef /\ socketRef # NoSocket
         /\ readyState[socketRef] = "Connecting")
          => /\ readyState'[socketRef] = "Closing"
             /\ audioBufferRef' = Append(audioBufferRef, nextChunk)]_vars

\* After a reconnect the capture loop of the earlier connection delivered
\* a chunk while the new handle was Connecting: the handle is Closing and
\* the chunk is queued.
C18_Witness ==
  /\ mountRef
  /\ created >= 2
  /\ recording >= 1
  /\ socketRef = created
  /\ readyState[created] = "Closing"
  /\ created \in failing
  /\ audioBufferRef # <<>>

\* C19: at most one handle is not Closed, it is the one created last, and
\* socketRef is null or the handle created last.
C19_OneLiveHandle ==
  /\ Cardinality({s \in Sockets :
                    readyState[s] \in {"Connecting", "Open", "Closing"}}) <= 1
  /\ \A s \in Sockets : s < created => readyState[s] = "Closed"
  /\ \A s \in Sockets : s > created => readyState[s] = "None"
  /\ socketRef \in {NoSocket, created}

\* The session reconnected twice and the third handle is Open and current.
C19_Witness ==
  /\ created >= 3
  /\ socketRef = created
  /\ readyState[created] = "Open"
  /\ readyState[1] = "Closed" /\ readyState[2] = "Closed"
====
